---------------------------- MODULE Spec2Model ----------------------------
(***************************************************************************)
(* State-machine model of monitor-console.py: the poll loop that lists the *)
(* tagged EC2 instances, fetches each console log, compares its timestamp  *)
(* with last_update and fans a changed log out to S3, stdout and a file.   *)
(*                                                                         *)
(* Program state keeps the names of the source (last_update, reservations, *)
(* instanceId, response, args).  pc is the position of the single thread.  *)
(* The remaining variables are history variables: they record what the     *)
(* program did (calls issued, sleeps taken) and are never read by it.      *)
(***************************************************************************)
EXTENDS Naturals, Sequences, FiniteSets

\* ------------------------------------------------------------------ bounds
\* Number of distinct Timestamp values get_console_output can return.
NumTimestamps == 2

\* The instances of the region.
Instances == {"i-001", "i-002", "i-003"}
\* Timestamps, as moments in the order of their numbers.
Timestamps == 1..NumTimestamps
\* Console output bodies.
Outputs == {"panic log A", "panic log B"}
\* Values of the positional "interval" argument (seconds).
Intervals == {30, 60}
\* Values of the positional "bucket" argument.
Buckets == {"my-bucket-name"}

VARIABLES
    pc,           \* position of the main thread
    args,         \* parsed command line (line 104)
    tagged,       \* the instances that carry the tag of line 115
    last_update,  \* the tracker dict (line 116)
    reservations, \* result of describe_instances (line 121)
    idx,          \* instances the two for loops have taken in this cycle
    instanceId,   \* line 130
    response,     \* line 133
    enumerated,   \* history: outcome of the latest describe_instances call
    fetched,      \* history: instances fetched in this cycle, in call order
    fetchFailed,  \* history: some get_console_output raised in this cycle
    writes,       \* history: sink writes of the current visit, in call order
    sleeps,       \* history: time.sleep arguments since the latest describe
    pre,          \* history: last_update when the current visit began
    lastFetched,  \* history: Timestamp of each instance's latest good fetch
    prevFetched,  \* history: lastFetched of instanceId before this visit
    putRaised,    \* history: some put_object raised in this cycle
    probe,        \* history: the (instance, timestamp) pair that is followed
    probeArchived,\* history: a put_object for the probe pair was attempted
    probeFailed,  \* history: the latest put_object of the probe's instance
                  \* was for the probe's timestamp and raised, and every
                  \* fetch of that instance since returned that timestamp
    prevProbeFailed, \* history: probeFailed when the current visit began
    archivedBefore, \* history: probeArchived when the process last started
    probeLatest   \* history: the latest put_object call for the probe's
                  \* instance was for the probe's timestamp and returned

vars == <<pc, args, tagged, last_update, reservations, idx, instanceId, response,
          enumerated, fetched, fetchFailed, writes, sleeps, pre,
          lastFetched, prevFetched, putRaised,
          probe, probeArchived, probeFailed, prevProbeFailed,
          archivedBefore, probeLatest>>

prog == <<args, tagged, last_update, reservations, idx, instanceId, response>>
cycleHist == <<enumerated, fetched, fetchFailed, putRaised, writes, sleeps>>
visitHist == <<pre, prevFetched, prevProbeFailed>>
longHist == <<lastFetched, probe, probeArchived, probeFailed, archivedBefore,
              probeLatest>>

\* ------------------------------------------------------- the environment
\* Sequences of distinct instance identifiers drawn from S.
InstanceSeqs(S) ==
    {s \in UNION {[1..n -> S] : n \in 0..Cardinality(S)} :
        \A i, j \in DOMAIN s : i # j => s[i] # s[j]}

\* s cut into consecutive non-empty reservations after the positions in c.
Group(s, c) ==
    LET st == {1} \cup {k + 1 : k \in c}
        n == Cardinality(st)
        nth(j) == CHOOSE a \in st : Cardinality({b \in st : b < a}) = j - 1
        end(j) == IF j = n THEN Len(s) ELSE nth(j + 1) - 1
    IN  IF s = <<>> THEN <<>>
        ELSE [j \in 1..n |-> [Instances |-> SubSeq(s, nth(j), end(j))]]

\* The "Reservations" lists describe_instances can return when the
\* instances of S carry the tag: any of them (an instance can be gone or
\* not yet visible), in any order and any grouping.
ReservationLists(S) ==
    UNION {{Group(s, c) : c \in SUBSET (1..(Len(s) - 1))} :
              s \in InstanceSeqs(S)}

\* The responses get_console_output can return: Output may be absent.
Responses ==
    [Timestamp : Timestamps, Output : Outputs] \cup [Timestamp : Timestamps]

\* response after get_console_output raised: the name is not rebound and
\* its stale value is never read before the next assignment.
Raised == [Error |-> TRUE]

\* ------------------------------------------------------------- helpers
RECURSIVE Flatten(_)
\* Iteration order of the nested for loops over reservations.
Flatten(res) ==
    IF res = <<>> THEN <<>> ELSE Head(res).Instances \o Flatten(Tail(res))

\* Variant of Key that leaves the instance out of the object name.
KeyTimestampOnly(id, ts) == <<"", "/", ts>>

\* f"{instanceId}/{timestamp}"
Key(id, ts) == <<id, "/", ts>>

\* Variant of NoUpdate that asks for a strictly newer stored timestamp.
NoUpdateStrict(lu, id, ts) == id \in DOMAIN lu /\ lu[id] > ts

\* Variant of NoUpdate that takes timestamps to grow: an older timestamp
\* than the stored one counts as no update.
NoUpdateMonotonic(lu, id, ts) == id \in DOMAIN lu /\ lu[id] >= ts

\* The condition of the if statement on lines 139-142.
NoUpdate(lu, id, ts) == id \in DOMAIN lu /\ lu[id] = ts

\* Variant of Record that starts a new dict with the one entry.
RecordOnly(lu, id, ts) == [i \in {id} |-> ts]

\* Variant of Record that keeps a Timestamp already stored
\* (dict.setdefault).
RecordIfAbsent(lu, id, ts) ==
    [i \in DOMAIN lu \cup {id} |-> IF i \in DOMAIN lu THEN lu[i] ELSE ts]

\* last_update[instanceId] = response["Timestamp"]
Record(lu, id, ts) ==
    [i \in DOMAIN lu \cup {id} |-> IF i = id THEN ts ELSE lu[i]]

\* "Output" in response
HasOutput(r) == "Output" \in DOMAIN r

\* The writes of the current visit that went to one sink.
WritesTo(sink) == SelectSeq(writes, LAMBDA w : w.sink = sink)

\* The for statement of line 129 (with line 126) is being evaluated:
\* before the first instance, or after the body ran for one.
AtLoopHead == pc \in {"for", "visited"}

\* A (instance, timestamp) pair no fetch returns: nothing is followed.
NoProbe == <<"", 0>>

\* ---------------------------------------------------------------- Init
InitProgram ==
    /\ pc = "describe"
    /\ last_update = <<>>
    /\ reservations = <<>>
    /\ idx = 0
    /\ instanceId = ""
    /\ response = Raised
    /\ enumerated = "never"
    /\ fetched = <<>>
    /\ fetchFailed = FALSE
    /\ writes = <<>>
    /\ sleeps = <<>>
    /\ pre = <<>>
    /\ lastFetched = <<>>
    /\ prevFetched = 0
    /\ probeFailed = FALSE
    /\ prevProbeFailed = FALSE
    /\ putRaised = FALSE
    /\ probeArchived = FALSE
    /\ archivedBefore = FALSE
    /\ probeLatest = FALSE

\* The command lines argparse accepts (lines 89-104).
Args == [print : BOOLEAN, file : BOOLEAN,
         interval : Intervals, bucket : Buckets]

\* The program after line 116: any command line, two tagged instances.
Init ==
    /\ InitProgram
    /\ args \in Args
    /\ tagged = {"i-001", "i-002"}
    /\ probe = NoProbe

\* The same start, with any one pair followed.
InitProbe ==
    /\ InitProgram
    /\ args \in Args
    /\ tagged = {"i-001", "i-002"}
    /\ probe \in tagged \X Timestamps

\* The start with three tagged instances and the command line
\* "--file tag region my-bucket-name 60".
InitThree ==
    /\ InitProgram
    /\ args = [print |-> FALSE, file |-> TRUE,
               interval |-> 60, bucket |-> "my-bucket-name"]
    /\ tagged = Instances
    /\ probe = NoProbe

\* The start with the command line "--file tag region my-bucket-name 60",
\* two tagged instances and any one pair followed.
InitRestart ==
    /\ InitProgram
    /\ args = [print |-> FALSE, file |-> TRUE,
               interval |-> 60, bucket |-> "my-bucket-name"]
    /\ tagged = {"i-001", "i-002"}
    /\ probe \in tagged \X Timestamps

\* ------------------------------------------------------------- actions
\* Lines 119-121: describe_instances returns.
DescribeInstances ==
    /\ pc = "describe"
    /\ \E r \in ReservationLists(tagged) : reservations' = r
    /\ idx' = 0
    /\ pc' = "for"
    /\ enumerated' = "ok"
    /\ fetched' = <<>>
    /\ fetchFailed' = FALSE
    /\ putRaised' = FALSE
    /\ writes' = <<>>
    /\ sleeps' = <<>>
    /\ UNCHANGED <<args, tagged, last_update, instanceId, response>>
    /\ UNCHANGED visitHist
    /\ UNCHANGED longHist

\* Variant of DescribeInstancesFail without the try of lines 120-125:
\* the exception ends the program.
DescribeInstancesUncaught ==
    /\ pc = "describe"
    /\ pc' = "crashed"
    /\ enumerated' = "failed"
    /\ fetched' = <<>>
    /\ fetchFailed' = FALSE
    /\ putRaised' = FALSE
    /\ writes' = <<>>
    /\ sleeps' = <<>>
    /\ UNCHANGED prog
    /\ UNCHANGED visitHist
    /\ UNCHANGED longHist

\* Lines 122-123: describe_instances raises.
DescribeInstancesFail ==
    /\ pc = "describe"
    /\ pc' = "sleep_retry"
    /\ enumerated' = "failed"
    /\ fetched' = <<>>
    /\ fetchFailed' = FALSE
    /\ putRaised' = FALSE
    /\ writes' = <<>>
    /\ sleeps' = <<>>
    /\ UNCHANGED prog
    /\ UNCHANGED visitHist
    /\ UNCHANGED longHist

\* Lines 124-125: sleep after the failed enumeration, then continue.
SleepRetry ==
    /\ pc = "sleep_retry"
    /\ sleeps' = Append(sleeps, args.interval)
    /\ pc' = "describe"
    /\ UNCHANGED prog
    /\ UNCHANGED <<enumerated, fetched, fetchFailed, putRaised, writes>>
    /\ UNCHANGED visitHist
    /\ UNCHANGED longHist

\* The history updates of a get_console_output call for instance id.
BeginVisit(id) ==
    /\ idx' = idx + 1
    /\ instanceId' = id
    /\ fetched' = Append(fetched, id)
    /\ writes' = <<>>
    /\ pre' = last_update
    /\ prevFetched' = IF id \in DOMAIN lastFetched THEN lastFetched[id] ELSE 0
    /\ prevProbeFailed' = probeFailed

\* Variant of GetConsoleOutput that takes the listed instances from the
\* end of the enumeration result.
GetConsoleOutputReversed ==
    /\ AtLoopHead
    /\ idx < Len(Flatten(reservations))
    /\ BeginVisit(Flatten(reservations)[Len(Flatten(reservations)) - idx])
    /\ \E r \in Responses :
        /\ response' = r
        /\ lastFetched' = Record(lastFetched, instanceId', r.Timestamp)
        /\ probeFailed' = (probeFailed /\
                              (instanceId' = probe[1] => r.Timestamp = probe[2]))
    /\ pc' = "check"
    /\ UNCHANGED <<args, tagged, last_update, reservations>>
    /\ UNCHANGED <<enumerated, fetchFailed, putRaised, sleeps>>
    /\ UNCHANGED <<probe, probeArchived, archivedBefore, probeLatest>>

\* Lines 129-133, 138: the next instance is taken and its console fetched.
GetConsoleOutput ==
    /\ AtLoopHead
    /\ idx < Len(Flatten(reservations))
    /\ BeginVisit(Flatten(reservations)[idx + 1])
    /\ \E r \in Responses :
        /\ response' = r
        /\ lastFetched' = Record(lastFetched, instanceId', r.Timestamp)
        /\ probeFailed' = (probeFailed /\
                              (instanceId' = probe[1] => r.Timestamp = probe[2]))
    /\ pc' = "check"
    /\ UNCHANGED <<args, tagged, last_update, reservations>>
    /\ UNCHANGED <<enumerated, fetchFailed, putRaised, sleeps>>
    /\ UNCHANGED <<probe, probeArchived, archivedBefore, probeLatest>>

\* Variant of GetConsoleOutputFail that gives up the rest of the phase.
GetConsoleOutputFailAbort ==
    /\ AtLoopHead
    /\ idx < Len(Flatten(reservations))
    /\ BeginVisit(Flatten(reservations)[idx + 1])
    /\ response' = Raised
    /\ fetchFailed' = TRUE
    /\ pc' = "sleep"
    /\ UNCHANGED <<args, tagged, last_update, reservations>>
    /\ UNCHANGED <<enumerated, putRaised, sleeps>>
    /\ UNCHANGED longHist

\* Lines 134-137: get_console_output raises; continue with the next one.
GetConsoleOutputFail ==
    /\ AtLoopHead
    /\ idx < Len(Flatten(reservations))
    /\ BeginVisit(Flatten(reservations)[idx + 1])
    /\ response' = Raised
    /\ fetchFailed' = TRUE
    /\ pc' = "visited"
    /\ UNCHANGED <<args, tagged, last_update, reservations>>
    /\ UNCHANGED <<enumerated, putRaised, sleeps>>
    /\ UNCHANGED longHist

\* Variant of CheckTimestamp that goes to the sinks without the assignment
\* of line 146.
CheckTimestampNoRecord ==
    /\ pc = "check"
    /\ IF NoUpdate(last_update, instanceId, response.Timestamp)
       THEN /\ pc' = "visited"
            /\ UNCHANGED last_update
       ELSE IF HasOutput(response)
            THEN /\ pc' = "s3"
                 /\ UNCHANGED last_update
            ELSE /\ pc' = "visited"
                 /\ last_update' =
                       Record(last_update, instanceId, response.Timestamp)
    /\ UNCHANGED <<args, tagged, reservations, idx, instanceId, response>>
    /\ UNCHANGED cycleHist
    /\ UNCHANGED visitHist
    /\ UNCHANGED longHist

\* Variant of CheckTimestamp with lines 146 and 147 exchanged: the tracker
\* is updated only for a response that has Output.
CheckTimestampOutputFirst ==
    /\ pc = "check"
    /\ IF NoUpdate(last_update, instanceId, response.Timestamp)
       THEN /\ pc' = "visited"
            /\ UNCHANGED last_update
       ELSE IF HasOutput(response)
            THEN /\ pc' = "s3"
                 /\ last_update' =
                       Record(last_update, instanceId, response.Timestamp)
            ELSE /\ pc' = "visited"
                 /\ UNCHANGED last_update
    /\ UNCHANGED <<args, tagged, reservations, idx, instanceId, response>>
    /\ UNCHANGED cycleHist
    /\ UNCHANGED visitHist
    /\ UNCHANGED longHist

\* Lines 138-147, 154-157: the timestamp comparison, the tracker update
\* and the test for "Output".
CheckTimestamp ==
    /\ pc = "check"
    /\ IF NoUpdate(last_update, instanceId, response.Timestamp)
       THEN /\ pc' = "visited"
            /\ UNCHANGED last_update
       ELSE /\ last_update' = Record(last_update, instanceId, response.Timestamp)
            /\ pc' = IF HasOutput(response) THEN "s3" ELSE "visited"
    /\ UNCHANGED <<args, tagged, reservations, idx, instanceId, response>>
    /\ UNCHANGED cycleHist
    /\ UNCHANGED visitHist
    /\ UNCHANGED longHist

\* The history record of one sink write.
Write(sink, ok) ==
    [sink |-> sink, ok |-> ok, instanceId |-> instanceId,
     timestamp |-> response.Timestamp, output |-> response.Output,
     bucket |-> IF sink = "s3" THEN args.bucket ELSE "",
     key |-> IF sink = "s3" THEN Key(instanceId, response.Timestamp) ELSE <<>>]

\* The history updates of a put_object call.
PutObject(ok) ==
    /\ writes' = Append(writes, Write("s3", ok))
    /\ probeArchived' =
          (probeArchived \/ probe = <<instanceId, response.Timestamp>>)
    /\ probeFailed' = IF instanceId = probe[1]
                      THEN response.Timestamp = probe[2] /\ ~ok
                      ELSE probeFailed
    /\ probeLatest' = IF instanceId = probe[1]
                      THEN response.Timestamp = probe[2] /\ ok
                      ELSE probeLatest
    /\ putRaised' = (putRaised \/ ~ok)

\* Lines 149, 76-83: out_to_s3, put_object returns.
OutToS3 ==
    /\ pc = "s3"
    /\ PutObject(TRUE)
    /\ pc' = "print"
    /\ UNCHANGED prog
    /\ UNCHANGED <<enumerated, fetched, fetchFailed, sleeps>>
    /\ UNCHANGED visitHist
    /\ UNCHANGED <<lastFetched, probe, archivedBefore>>

\* Variant of OutToS3Fail without the try of lines 81-86: the exception
\* ends the program.
OutToS3Uncaught ==
    /\ pc = "s3"
    /\ PutObject(FALSE)
    /\ pc' = "crashed"
    /\ UNCHANGED prog
    /\ UNCHANGED <<enumerated, fetched, fetchFailed, sleeps>>
    /\ UNCHANGED visitHist
    /\ UNCHANGED <<lastFetched, probe, archivedBefore>>

\* Variant of OutToS3Fail that takes the tracker update back, as if the
\* timestamp were recorded only after a successful put_object.
OutToS3FailUnrecord ==
    /\ pc = "s3"
    /\ PutObject(FALSE)
    /\ pc' = "print"
    /\ last_update' = pre
    /\ UNCHANGED <<args, tagged, reservations, idx, instanceId, response>>
    /\ UNCHANGED <<enumerated, fetched, fetchFailed, sleeps>>
    /\ UNCHANGED visitHist
    /\ UNCHANGED <<lastFetched, probe, archivedBefore>>

\* Lines 149, 76-86: out_to_s3, put_object raises and the error is logged.
OutToS3Fail ==
    /\ pc = "s3"
    /\ PutObject(FALSE)
    /\ pc' = "print"
    /\ UNCHANGED prog
    /\ UNCHANGED <<enumerated, fetched, fetchFailed, sleeps>>
    /\ UNCHANGED visitHist
    /\ UNCHANGED <<lastFetched, probe, archivedBefore>>

\* Variant of OutToPrint that does not test args.print.
OutToPrintAlways ==
    /\ pc = "print"
    /\ writes' = Append(writes, Write("print", TRUE))
    /\ pc' = "file"
    /\ UNCHANGED prog
    /\ UNCHANGED <<enumerated, fetched, fetchFailed, putRaised, sleeps>>
    /\ UNCHANGED visitHist
    /\ UNCHANGED longHist

\* Lines 150-151, 67-73: out_to_print when --print is given.
OutToPrint ==
    /\ pc = "print"
    /\ writes' = IF args.print THEN Append(writes, Write("print", TRUE))
                 ELSE writes
    /\ pc' = "file"
    /\ UNCHANGED prog
    /\ UNCHANGED <<enumerated, fetched, fetchFailed, putRaised, sleeps>>
    /\ UNCHANGED visitHist
    /\ UNCHANGED longHist

\* Lines 152-153, 57-64: out_to_file when --file is given.
OutToFile ==
    /\ pc = "file"
    /\ writes' = IF args.file THEN Append(writes, Write("file", TRUE))
                 ELSE writes
    /\ pc' = "visited"
    /\ UNCHANGED prog
    /\ UNCHANGED <<enumerated, fetched, fetchFailed, putRaised, sleeps>>
    /\ UNCHANGED visitHist
    /\ UNCHANGED longHist

\* Variant of OutToFileFail with a try around the call of out_to_file:
\* the exception is logged and the loop goes on.
OutToFileFailCaught ==
    /\ pc = "file"
    /\ args.file
    /\ writes' = Append(writes, Write("file", FALSE))
    /\ pc' = "visited"
    /\ UNCHANGED prog
    /\ UNCHANGED <<enumerated, fetched, fetchFailed, putRaised, sleeps>>
    /\ UNCHANGED visitHist
    /\ UNCHANGED longHist

\* Lines 152-153, 61-63: open or print raises in out_to_file; nothing
\* catches it and the interpreter exits.
OutToFileFail ==
    /\ pc = "file"
    /\ args.file
    /\ writes' = Append(writes, Write("file", FALSE))
    /\ pc' = "crashed"
    /\ UNCHANGED prog
    /\ UNCHANGED <<enumerated, fetched, fetchFailed, putRaised, sleeps>>
    /\ UNCHANGED visitHist
    /\ UNCHANGED longHist

\* Variant of EndFor that goes back to line 119 without the sleep.
EndForNoSleep ==
    /\ AtLoopHead
    /\ idx = Len(Flatten(reservations))
    /\ pc' = "describe"
    /\ UNCHANGED prog
    /\ UNCHANGED cycleHist
    /\ UNCHANGED visitHist
    /\ UNCHANGED longHist

\* Lines 126, 129, 158-159: both for loops are exhausted.
EndFor ==
    /\ AtLoopHead
    /\ idx = Len(Flatten(reservations))
    /\ pc' = "sleep"
    /\ UNCHANGED prog
    /\ UNCHANGED cycleHist
    /\ UNCHANGED visitHist
    /\ UNCHANGED longHist

\* Line 160: time.sleep(args.interval), then back to while True.  The
\* bindings of reservations, instanceId and response are dead from here on
\* (each is assigned again before it is read), so the model drops their
\* values together with the history of the last visit.
Sleep ==
    /\ pc = "sleep"
    /\ sleeps' = Append(sleeps, args.interval)
    /\ pc' = "describe"
    /\ reservations' = <<>>
    /\ idx' = 0
    /\ instanceId' = ""
    /\ response' = Raised
    /\ writes' = <<>>
    /\ pre' = <<>>
    /\ prevFetched' = 0
    /\ prevProbeFailed' = FALSE
    /\ UNCHANGED <<args, tagged, last_update>>
    /\ UNCHANGED <<enumerated, fetched, fetchFailed, putRaised>>
    /\ UNCHANGED longHist

Next ==
    \/ DescribeInstances
    \/ DescribeInstancesFail
    \/ SleepRetry
    \/ GetConsoleOutput
    \/ GetConsoleOutputFail
    \/ CheckTimestamp
    \/ OutToS3
    \/ OutToS3Fail
    \/ OutToPrint
    \/ OutToFile
    \/ OutToFileFail
    \/ EndFor
    \/ Sleep

Spec == Init /\ [][Next]_vars

\* The same program with one (instance, timestamp) pair followed.
SpecProbe == InitProbe /\ [][Next]_vars

\* Three tagged instances, local files written.
SpecThree == InitThree /\ [][Next]_vars

\* The steps of the program when no local-file write fails: the failures
\* left are the ones the program handles (describe_instances,
\* get_console_output and put_object raising) and an absent Output.
NextHandled ==
    \/ DescribeInstances
    \/ DescribeInstancesFail
    \/ SleepRetry
    \/ GetConsoleOutput
    \/ GetConsoleOutputFail
    \/ CheckTimestamp
    \/ OutToS3
    \/ OutToS3Fail
    \/ OutToPrint
    \/ OutToFile
    \/ EndFor
    \/ Sleep

\* The single thread runs on: every call it makes returns or raises.
LiveSpec == Init /\ [][NextHandled]_vars /\ WF_vars(NextHandled)

\* Variant of Restart in which the tracker survives the process: it is
\* read back at startup instead of being created empty.
RestartKeepTracker ==
    /\ pc' = "describe"
    /\ reservations' = <<>>
    /\ idx' = 0
    /\ instanceId' = ""
    /\ response' = Raised
    /\ enumerated' = "never"
    /\ fetched' = <<>>
    /\ fetchFailed' = FALSE
    /\ putRaised' = FALSE
    /\ writes' = <<>>
    /\ sleeps' = <<>>
    /\ pre' = <<>>
    /\ lastFetched' = <<>>
    /\ prevFetched' = 0
    /\ probeFailed' = FALSE
    /\ prevProbeFailed' = FALSE
    /\ archivedBefore' = probeArchived
    /\ probeLatest' = FALSE
    /\ UNCHANGED <<args, tagged, last_update, probe, probeArchived>>

\* The process is stopped from outside (or has ended on an uncaught
\* exception) and is started again with the same command line: lines
\* 104-116 run anew and line 116 creates an empty tracker.  What was put
\* into the bucket stays there.
Restart ==
    /\ pc' = "describe"
    /\ last_update' = <<>>
    /\ reservations' = <<>>
    /\ idx' = 0
    /\ instanceId' = ""
    /\ response' = Raised
    /\ enumerated' = "never"
    /\ fetched' = <<>>
    /\ fetchFailed' = FALSE
    /\ putRaised' = FALSE
    /\ writes' = <<>>
    /\ sleeps' = <<>>
    /\ pre' = <<>>
    /\ lastFetched' = <<>>
    /\ prevFetched' = 0
    /\ probeFailed' = FALSE
    /\ prevProbeFailed' = FALSE
    /\ archivedBefore' = probeArchived
    /\ probeLatest' = FALSE
    /\ UNCHANGED <<args, tagged, probe, probeArchived>>

\* The steps of the program and of whoever restarts it.
NextRestart ==
    \/ Next
    \/ Restart

\* The program run under a supervisor that may restart it at any time.
SpecRestart == InitRestart /\ [][NextRestart]_vars

\* ------------------------------------------------- vocabulary of the claims
\* A visit is the run of the loop body (lines 130-157) for one instance.
\* The visit of instanceId has begun and the history describes it.
Visiting ==
    pc \in {"check", "s3", "print", "file", "visited", "sleep", "crashed"}
    /\ fetched # <<>>

\* The visit of instanceId ran to the end of the loop body.
VisitDone == pc \in {"visited", "sleep"} /\ fetched # <<>>

\* get_console_output returned in this visit.
Fetched == Visiting /\ response # Raised

\* The tracker held the fetched timestamp for instanceId when the visit began.
SameAsStored ==
    instanceId \in DOMAIN pre /\ pre[instanceId] = response.Timestamp

\* Number of writes of the current visit to one sink.
Count(sink) == Len(WritesTo(sink))

\* ------------------------------------------------------------------ claims
\* C1: repeat suppression.  In every visit whose fetch succeeded with the
\* timestamp that last_update already held for the instance, no sink
\* (S3, file, stdout) is written and last_update stays as it was.
C1_RepeatSuppression ==
    (Fetched /\ SameAsStored) => (writes = <<>> /\ last_update = pre)

\* A finished visit that fetched output under the stored timestamp.
C1_Witness ==
    /\ VisitDone
    /\ response # Raised
    /\ SameAsStored
    /\ HasOutput(response)
    /\ writes = <<>>

\* C2: delivery on change.  A visit whose fetch returned output under a
\* timestamp other than the stored one (no entry, a later or an earlier
\* timestamp) attempts exactly one put_object; and a visit whose fetch
\* returns the timestamp of the instance's previous successful fetch
\* attempts none.
C2_DeliveryOnChange ==
    /\ (Fetched /\ HasOutput(response) /\ ~SameAsStored
            /\ pc \in {"print", "file", "visited", "sleep", "crashed"})
        => Count("s3") = 1
    /\ Visiting => Count("s3") <= 1
    /\ (Fetched /\ prevFetched = response.Timestamp) => Count("s3") = 0

\* A finished visit that delivered a timestamp earlier than the stored one.
C2_Witness ==
    /\ VisitDone
    /\ response # Raised
    /\ HasOutput(response)
    /\ instanceId \in DOMAIN pre
    /\ pre[instanceId] > response.Timestamp
    /\ Count("s3") = 1

\* C3: a fetched snapshot without Output causes no sink write and no change
\* of last_update, whatever its timestamp.
C3_NoOutputNoEffect ==
    (Fetched /\ ~HasOutput(response)) => (writes = <<>> /\ last_update = pre)

\* C4: no observed output is skipped.  When a visit that fetched output under
\* timestamp t for instance i has finished, a put_object with key i/t has
\* been attempted, in this visit or before.  (probe ranges over all pairs.)
C4_NoObservedOutputSkipped ==
    (VisitDone /\ response # Raised /\ HasOutput(response)
        /\ probe = <<instanceId, response.Timestamp>>)
    => probeArchived

\* put_object raised in the current visit.
S3Raised == \E k \in DOMAIN writes : writes[k].sink = "s3" /\ ~writes[k].ok

\* The fetch of the current visit returned a timestamp the tracker did not
\* hold, with Output present: the snapshot is fanned out.
Novel == Fetched /\ HasOutput(response) /\ ~SameAsStored

\* The program sleeps (line 124 or line 160).
Sleeping == pc \in {"sleep", "sleep_retry"}

\* C5: when describe_instances raises, no get_console_output call and no
\* sink write follow in that cycle and last_update is unchanged; the program
\* sleeps once for args.interval and then calls describe_instances again.
C5_EnumerationFailure ==
    [][ /\ enumerated' = "failed" =>
            /\ fetched' = <<>>
            /\ writes' = <<>>
            /\ last_update' = last_update
            /\ pc' \in {"sleep_retry", "describe"}
            /\ sleeps' = IF pc' = "describe" THEN <<args.interval>> ELSE <<>>
        /\ (enumerated = "failed" /\ pc = "sleep_retry") => pc' = "describe"
        /\ (enumerated = "failed" /\ pc = "describe") =>
            (sleeps' = <<>> /\ pc' \in {"for", "sleep_retry"})
      ]_vars

\* The program is back at describe_instances after a failed enumeration,
\* with a tracker that holds entries.
C5_Witness ==
    /\ pc = "describe"
    /\ enumerated = "failed"
    /\ sleeps = <<args.interval>>
    /\ last_update # <<>>

C8_NoRetryAfterArchiveFailure ==
    /\ probeFailed =>
        (probe[1] \in DOMAIN last_update /\ last_update[probe[1]] = probe[2])
    /\ (Visiting /\ S3Raised) =>
        (instanceId \in DOMAIN last_update
            /\ last_update[instanceId] = response.Timestamp)
    /\ (Fetched /\ instanceId = probe[1] /\ prevProbeFailed
            /\ response.Timestamp = probe[2]) => Count("s3") = 0
    /\ (Fetched /\ instanceId = probe[1] /\ prevProbeFailed
            /\ response.Timestamp # probe[2] /\ HasOutput(response)
            /\ pc \in {"print", "file", "visited", "sleep", "crashed"})
        => Count("s3") = 1

\* A finished visit in a later cycle that fetched output under the
\* timestamp whose put_object had raised, and wrote nothing.
C8_Witness ==
    /\ VisitDone
    /\ response # Raised
    /\ instanceId = probe[1]
    /\ prevProbeFailed
    /\ response.Timestamp = probe[2]
    /\ HasOutput(response)
    /\ writes = <<>>

\* C9: sink gating.  A visit that fans a snapshot out calls put_object
\* exactly once whatever the flags are, out_to_print exactly once if --print
\* is given and never otherwise, out_to_file exactly once if --file is given
\* and never otherwise, and writes nowhere else.
C9_SinkGating ==
    /\ (Novel /\ pc \in {"visited", "sleep", "crashed"}) =>
        /\ Count("s3") = 1
        /\ Count("print") = (IF args.print THEN 1 ELSE 0)
        /\ Count("file") = (IF args.file THEN 1 ELSE 0)
    /\ Count("s3") <= 1
    /\ Count("print") <= (IF args.print THEN 1 ELSE 0)
    /\ Count("file") <= (IF args.file THEN 1 ELSE 0)
    /\ Len(writes) = Count("s3") + Count("print") + Count("file")

\* A finished fan-out with --file and without --print: one put_object, one
\* file write, no stdout write.
C9_Witness ==
    /\ VisitDone
    /\ Novel
    /\ args.file
    /\ ~args.print
    /\ Count("s3") = 1
    /\ Count("file") = 1
    /\ Count("print") = 0

\* C10: the poll loop has no terminal state.  Whatever describe_instances,
\* get_console_output and put_object do (return or raise) and whether or
\* not Output is present, every polling phase is followed by a sleep, every
\* sleep by a describe_instances call, and between two describe_instances
\* calls the program sleeps exactly once, for args.interval.
C10_NoTerminalState ==
    /\ (pc = "describe") ~> Sleeping
    /\ Sleeping ~> (pc = "describe")
    /\ [][ /\ Sleeping => (pc' = "describe" /\ sleeps' = <<args.interval>>)
           /\ pc = "describe" =>
                /\ sleeps = IF enumerated = "never" THEN <<>>
                            ELSE <<args.interval>>
                /\ pc' \in {"for", "sleep_retry"}
           /\ pc' # "crashed"
         ]_vars

\* The program is about to call describe_instances again after a phase in
\* which a fetch and a put_object raised.
C10_Witness ==
    /\ pc = "describe"
    /\ enumerated = "ok"
    /\ fetchFailed
    /\ putRaised
    /\ sleeps = <<args.interval>>

\* C11: every put_object call of a visit names the configured bucket, the
\* key made of the identifier of the instance fetched last, "/" and the
\* Timestamp that fetch returned, and carries the Output of that same
\* response as body.
C11_ArchiveWritePairing ==
    \A k \in DOMAIN writes :
        writes[k].sink = "s3" =>
            /\ Fetched
            /\ instanceId = fetched[Len(fetched)]
            /\ writes[k].bucket = args.bucket
            /\ writes[k].key = <<instanceId, "/", lastFetched[instanceId]>>
            /\ writes[k].key = <<instanceId, "/", response.Timestamp>>
            /\ HasOutput(response)
            /\ writes[k].output = response.Output

\* put_object was called for the second instance of the cycle, whose
\* snapshot differs in Timestamp from its earlier one and from the
\* snapshot of the first instance.
C11_Witness ==
    /\ pc = "print"
    /\ Count("s3") = 1
    /\ fetched = <<"i-001", "i-002">>
    /\ instanceId \in DOMAIN pre
    /\ pre[instanceId] # response.Timestamp
    /\ "i-001" \in DOMAIN lastFetched
    /\ lastFetched["i-001"] # response.Timestamp
    /\ writes[1].key = <<"i-002", "/", response.Timestamp>>

\* C12: the tracker is empty whenever the process starts, so the first
\* response with Output that an instance yields after a (re)start goes to
\* the sinks whether or not the same (instance, Timestamp) was archived
\* before the restart, and a later fetch of that instance returning the
\* Timestamp of its previous fetch writes to no sink.
C12_RestartReannouncement ==
    /\ (pc = "describe" /\ enumerated = "never") => last_update = <<>>
    /\ (Fetched /\ HasOutput(response) /\ prevFetched = 0
            /\ pc \in {"print", "file", "visited", "sleep", "crashed"})
          => Count("s3") = 1
    /\ (Fetched /\ HasOutput(response) /\ prevFetched = 0
            /\ pc \in {"visited", "sleep", "crashed"})
          => Count("file") = 1
    /\ (Fetched /\ prevFetched = response.Timestamp) => writes = <<>>

\* After a restart the first fetch of an instance returned, with Output,
\* the Timestamp that had been archived for it before the restart, and
\* put_object was called for it again.
C12_Witness ==
    /\ archivedBefore
    /\ pc = "visited"
    /\ Fetched
    /\ prevFetched = 0
    /\ probe = <<instanceId, response.Timestamp>>
    /\ Count("s3") = 1
    /\ Count("file") = 1

\* C13: last_update changes only in the step of lines 139-146 taken for a
\* response whose Timestamp differs from the stored one, and that step
\* sets the entry of instanceId and leaves every other entry as it was;
\* describe_instances, a raising get_console_output, a response with the
\* stored Timestamp, every sink call and time.sleep leave the dict alone.
C13_TrackerFrame ==
    [][ last_update' # last_update =>
          /\ pc = "check"
          /\ ~(instanceId \in DOMAIN last_update
                 /\ last_update[instanceId] = response.Timestamp)
          /\ DOMAIN last_update' = DOMAIN last_update \cup {instanceId}
          /\ last_update'[instanceId] = response.Timestamp
          /\ \A i \in DOMAIN last_update \ {instanceId} :
                 last_update'[i] = last_update[i]
      ]_vars

\* The entry of one instance was overwritten while the dict held an entry
\* of the other instance, and put_object is about to be called.
C13_Witness ==
    /\ pc = "s3"
    /\ instanceId \in DOMAIN pre
    /\ pre[instanceId] # last_update[instanceId]
    /\ Cardinality(DOMAIN last_update) = 2
    /\ \A i \in DOMAIN pre \ {instanceId} : last_update[i] = pre[i]

\* C14: the assignment of line 146 comes before the sink calls of lines
\* 149-153: whenever a sink call for the response of instanceId is about
\* to be made or has been made in the current visit, last_update holds
\* that response's Timestamp for instanceId.
C14_RecordBeforeFanOut ==
    /\ pc \in {"s3", "print", "file"} =>
          /\ instanceId \in DOMAIN last_update
          /\ last_update[instanceId] = response.Timestamp
    /\ \A k \in DOMAIN writes :
          /\ writes[k].instanceId \in DOMAIN last_update
          /\ last_update[writes[k].instanceId] = writes[k].timestamp

\* put_object is about to be called for a snapshot of an instance that
\* had another Timestamp stored when the visit began.
C14_Witness ==
    /\ pc = "s3"
    /\ writes = <<>>
    /\ instanceId \in DOMAIN pre
    /\ pre[instanceId] # response.Timestamp
    /\ last_update[instanceId] = response.Timestamp

\* C15: an exception of out_to_file is caught nowhere.  Once the file
\* write of a visit has raised the program has ended: it takes no further
\* step (no fetch of the instances left in the cycle, no sleep, no
\* describe_instances), and put_object and, with --print, out_to_print
\* were called for that snapshot before.
C15_FileFailureFatal ==
    (\E k \in DOMAIN writes : writes[k].sink = "file" /\ ~writes[k].ok) =>
        /\ pc = "crashed"
        /\ ~ENABLED Next
        /\ sleeps = <<>>
        /\ Len(fetched) = idx
        /\ Count("s3") = 1
        /\ Count("print") = (IF args.print THEN 1 ELSE 0)
        /\ Count("file") = 1
        /\ \A k \in DOMAIN writes :
              /\ writes[k].instanceId = instanceId
              /\ writes[k].timestamp = response.Timestamp
        /\ writes[Len(writes)].sink = "file"

\* The file write of the first of two listed instances raised after
\* put_object and out_to_print had been called; the second instance is
\* never fetched.
C15_Witness ==
    /\ pc = "crashed"
    /\ args.print
    /\ idx = 1
    /\ Len(Flatten(reservations)) = 2
    /\ fetched = <<instanceId>>
    /\ Count("s3") = 1
    /\ Count("print") = 1
    /\ ~writes[Len(writes)].ok

\* C16: in a polling phase get_console_output is called for the listed
\* instances in the order of the enumeration result, one after the other:
\* the instances fetched so far are a prefix of that order, a fetch starts
\* only when the loop body of the previous instance has run to its end, and
\* every sink call is for the instance fetched last.
C16_EnumerationOrder ==
    /\ [](pc \in {"for", "check", "s3", "print", "file", "visited",
                  "sleep", "crashed"} =>
            /\ Len(fetched) = idx
            /\ idx <= Len(Flatten(reservations))
            /\ fetched = SubSeq(Flatten(reservations), 1, idx)
            /\ \A k \in DOMAIN writes :
                   writes[k].instanceId = fetched[Len(fetched)])
    /\ [][ /\ (fetched' # fetched /\ fetched' # <<>>) =>
                /\ pc \in {"for", "visited"}
                /\ fetched' =
                      Append(fetched, Flatten(reservations)[Len(fetched) + 1])
           /\ (writes' # writes /\ writes' # <<>>) =>
                /\ pc \in {"s3", "print", "file"}
                /\ fetched' = fetched
                /\ \E w \in {writes'[Len(writes')]} :
                      /\ writes' = Append(writes, w)
                      /\ w.instanceId = fetched[Len(fetched)]
         ]_vars

\* Two instances were listed with i-002 first; both were fetched in that
\* order and put_object was called for each in its own visit.
C16_Witness ==
    /\ pc = "visited"
    /\ Flatten(reservations) = <<"i-002", "i-001">>
    /\ fetched = <<"i-002", "i-001">>
    /\ pre # <<>>
    /\ "i-002" \in DOMAIN pre
    /\ Count("s3") = 1
    /\ writes[1].instanceId = "i-001"

\* C17: every snapshot that goes to the sinks is the one fetched last for
\* its instance, so the deliveries of an instance follow the order of its
\* fetches, and no two consecutive deliveries of an instance carry the
\* same Timestamp: a put_object call for (i, T) that returns is never
\* followed, with no put_object call for i in between, by another one
\* for (i, T).  (probe = <<i, T>> ranges over all pairs.)
C17_DeliveryOrder ==
    /\ [](\A k \in DOMAIN writes :
             /\ writes[k].instanceId \in DOMAIN lastFetched
             /\ writes[k].timestamp = lastFetched[writes[k].instanceId])
    /\ [][ (/\ pc = "s3"
            /\ instanceId = probe[1]
            /\ response.Timestamp = probe[2]
            /\ Len(writes') = Len(writes) + 1
            /\ writes'[Len(writes')].ok) => ~probeLatest
         ]_vars

\* C18: outside the few lines between a fetch and line 146, last_update
\* has an entry for exactly the instances for which get_console_output has
\* returned since the program started; an entry is one Timestamp; and no
\* step removes an entry, whether or not describe_instances still lists
\* the instance.
C18_TrackerLifecycle ==
    /\ [](pc # "check" => DOMAIN last_update = DOMAIN lastFetched)
    /\ [](/\ DOMAIN last_update \subseteq tagged
          /\ \A i \in DOMAIN last_update : last_update[i] \in Timestamps)
    /\ [][DOMAIN last_update \subseteq DOMAIN last_update']_vars

\* describe_instances has returned a list without an instance that was
\* fetched in an earlier cycle, its response having had no Output; the
\* entry of that instance is still in the dict.
C18_Witness ==
    /\ pc = "for"
    /\ idx = 0
    /\ Len(Flatten(reservations)) = 1
    /\ Cardinality(DOMAIN last_update) = 2
    /\ probe[1] \in DOMAIN last_update
    /\ probe[1] # Flatten(reservations)[1]
    /\ last_update[probe[1]] = probe[2]
    /\ ~probeArchived

\* C19: the assignment of line 146, applied to any tracker the program can
\* hold and any instance and Timestamp, sets the entry of that instance to
\* the Timestamp whatever was stored, keeps every other entry, and applied
\* a second time with the same arguments changes nothing.
C19_RecordOverwrite ==
    \A i \in tagged, t \in Timestamps :
        LET once == Record(last_update, i, t)
            twice == Record(once, i, t)
        IN  /\ DOMAIN once = DOMAIN last_update \cup {i}
            /\ once[i] = t
            /\ \A j \in DOMAIN last_update \ {i} : once[j] = last_update[j]
            /\ twice = once

\* Line 146 has overwritten the entry of one instance with another
\* Timestamp while the dict held an entry of the other instance.
C19_Witness ==
    /\ pc = "visited"
    /\ Fetched
    /\ Cardinality(DOMAIN pre) = 2
    /\ pre[instanceId] # response.Timestamp
    /\ last_update[instanceId] = response.Timestamp
    /\ \E j \in DOMAIN pre \ {instanceId} : last_update[j] = pre[j]
    /\ last_update # pre

\* C20: whenever the program is at the head of the for loops, sleeping or
\* about to call describe_instances, last_update holds, for every instance
\* for which get_console_output has returned since the start, the
\* Timestamp of the latest such response, and holds nothing else; this is
\* so for a response without Output and for one whose put_object raised.
C20_TrackerIsLatestFetch ==
    pc \in {"describe", "sleep_retry", "for", "visited", "sleep"} =>
        /\ DOMAIN last_update = DOMAIN lastFetched
        /\ \A i \in DOMAIN lastFetched : last_update[i] = lastFetched[i]

\* The cycle has ended after a put_object for the first instance raised
\* and the second instance returned a new Timestamp without Output; both
\* Timestamps are stored.
C20_Witness ==
    /\ pc = "sleep"
    /\ Len(fetched) = 2
    /\ putRaised
    /\ ~fetchFailed
    /\ Fetched
    /\ ~HasOutput(response)
    /\ instanceId \in DOMAIN pre
    /\ pre[instanceId] # response.Timestamp
    /\ last_update[instanceId] = response.Timestamp
    /\ last_update[fetched[1]] = lastFetched[fetched[1]]

=============================================================================
